---- MODULE Spec2Model ----
(***************************************************************************)
(* DynamicArray<T> (src/DynamicArray/DynamicArray.h) as a state machine.   *)
(*                                                                         *)
(* DynamicArray objects live over one heap of storage blocks.  Every       *)
(* public member function is one atomic action (the class is               *)
(* single-threaded and each call runs to completion); the private          *)
(* helpers are operators that thread the memory M = [heap, fault] and the  *)
(* object's three fields through the statements of the source.             *)
(*                                                                         *)
(* Five programs drive the class.  Spec is a program with one object,     *)
(* "a", that calls every member function with every argument.  SpecTwo is  *)
(* a program with two objects on a smaller heap that constructs, copies,   *)
(* moves, swaps and destroys them and mutates either of them.  SpecCap is  *)
(* a program with one object on a larger heap that only sizes it:          *)
(* construction, Add, Resize, Reserve, Shrink, Clear, RemoveAt.  SpecThrow *)
(* is a program with one object whose element copies can throw inside      *)
(* operator=(initializer_list) and inside Reserve.  SpecAlias is a program *)
(* with one object that passes references to its own elements to Add,      *)
(* Emplace, Insert and EmplaceAt.  The variable limit is the largest       *)
(* request the allocator of the run grants.                                *)
(*                                                                         *)
(* T is an int-like element type (the tests instantiate DynamicArray<int>):*)
(* nothrow-movable, so reallocate takes the uninitialized_move_n branch,   *)
(* and T{} is 0.  std::size_t is a WordBits-bit unsigned word; every       *)
(* size_t expression of the source is reduced modulo 2^WordBits.           *)
(*                                                                         *)
(* A slot of a block is Dead (raw, unconstructed memory) or holds a value. *)
(* Constructing over a live slot, destroying or reading a dead slot,       *)
(* touching memory outside a block or a released block, and releasing a    *)
(* block twice are undefined behaviour: they raise M.fault.  A call that   *)
(* faults ends the run (status = "ub") in one of the outcomes a build can  *)
(* produce: the process aborts inside the call, or the call returns with   *)
(* the fields computed by the wrapped arithmetic, the loop that faulted    *)
(* cut short at the fault, writes inside the block applied and writes      *)
(* outside it landing in memory the model does not track.                  *)
(***************************************************************************)
EXTENDS Integers, Sequences, FiniteSets, TLC

VARIABLES arr, heap, status, limit

vars == <<arr, heap, status, limit>>

\* ---------------------------------------------------------------- bounds
WordBits == 3
MaxAlloc == 4
MaxAllocTwo == 2
MaxAllocCap == 6
MaxVal == 1
MaxList == 2
MaxBlocks == 3

\* ------------------------------------------------------------- constants
Mod == 2^WordBits
MaxWord == Mod - 1
INDEX_NONE == MaxWord
nullptr == 0
Dead == -1
Indet == -2

Names == {"a", "b"}
Words == 0..MaxWord
Values == 0..MaxVal
Blocks == 1..MaxBlocks
Lists == UNION {[1..n -> Values] : n \in 0..MaxList}
Preds == SUBSET Values

Min(x, y) == IF x < y THEN x ELSE y

\* ---------------------------------------------------------------- memory
Mem(h, f) == [heap |-> h, fault |-> f]

Fault(M) == [M EXCEPT !.fault = TRUE]

InBlock(M, p, i) == p # nullptr /\ i >= 0 /\ i < Len(M.heap[p])

IsLive(M, p, i) == InBlock(M, p, i) /\ M.heap[p][i + 1] # Dead

Load(M, p, i) == IF IsLive(M, p, i) THEN M.heap[p][i + 1] ELSE Indet

construct_at(M, p, i, v) ==
    IF ~InBlock(M, p, i) THEN Fault(M)
    ELSE Mem([M.heap EXCEPT ![p][i + 1] = v], M.fault \/ M.heap[p][i + 1] # Dead)

destroy_at(M, p, i) ==
    IF ~InBlock(M, p, i) THEN Fault(M)
    ELSE Mem([M.heap EXCEPT ![p][i + 1] = Dead], M.fault \/ M.heap[p][i + 1] = Dead)

\* std::construct_at(m_data + dest, std::move_if_noexcept(m_data[src]))
MoveConstruct(M, p, dest, src) ==
    construct_at(IF IsLive(M, p, src) THEN M ELSE Fault(M), p, dest, Load(M, p, src))

\* A loop that has run into undefined behaviour is not followed through its
\* remaining iterations: it ends where the fault happened.
RECURSIVE destroy_n(_, _, _, _)
destroy_n(M, p, first, n) ==
    IF M.fault \/ n = 0 THEN M
    ELSE destroy_n(destroy_at(M, p, first), p, first + 1, n - 1)

RECURSIVE uninitialized_copy_n(_, _, _, _, _)
uninitialized_copy_n(M, src, count, p, first) ==
    IF M.fault \/ count = 0 THEN M
    ELSE uninitialized_copy_n(construct_at(M, p, first, Head(src)), Tail(src),
                              count - 1, p, first + 1)

RECURSIVE uninitialized_fill_n(_, _, _, _, _)
uninitialized_fill_n(M, p, first, n, value) ==
    IF M.fault \/ n = 0 THEN M
    ELSE uninitialized_fill_n(construct_at(M, p, first, value), p, first + 1, n - 1, value)

RECURSIVE uninitialized_move_n(_, _, _, _, _)
uninitialized_move_n(M, src, i, n, dst) ==
    IF M.fault \/ i >= n THEN M
    ELSE uninitialized_move_n(
             construct_at(IF IsLive(M, src, i) THEN M ELSE Fault(M), dst, i, Load(M, src, i)),
             src, i + 1, n, dst)

\* std::uninitialized_copy_n for an element type whose copy constructor throws
\* after good elements were copied: the algorithm destroys the elements it
\* constructed and lets the exception leave.
uninitialized_copy_n_throws(M, src, good, p, first) ==
    destroy_n(uninitialized_copy_n(M, src, good, p, first), p, first, good)

\* The values of the range [p, p + count) handed to assign as (src, count).
SrcRange(M, p, count) == [i \in 1..count |-> Load(M, p, i - 1)]

\* ------------------------------------------------------------- allocator
FreeBlocks(M) == {b \in Blocks : M.heap[b] = <<>>}

\* ::operator new succeeds: the request fits the heap and the allocator does
\* not report exhaustion (allocOk is the allocator's nondeterministic answer).
CanAllocate(M, capacity, allocOk) ==
    capacity = 0 \/ (allocOk /\ capacity <= limit /\ FreeBlocks(M) # {})

NewBlock(M) == CHOOSE b \in FreeBlocks(M) : \A o \in FreeBlocks(M) : b <= o

allocate(M, capacity) == IF capacity = 0 THEN nullptr ELSE NewBlock(M)

Allocated(M, capacity) ==
    IF capacity = 0 THEN M
    ELSE [M EXCEPT !.heap[NewBlock(M)] = [i \in 1..capacity |-> Dead]]

deallocate(M, ptr) ==
    IF ptr = nullptr THEN M
    ELSE IF M.heap[ptr] = <<>> THEN Fault(M)
    ELSE [M EXCEPT !.heap[ptr] = <<>>]

\* ------------------------------------------------------- object and result
Object(data, size, capacity) ==
    [alive |-> TRUE, m_data |-> data, m_size |-> size, m_capacity |-> capacity]

NoObject == [alive |-> FALSE, m_data |-> nullptr, m_size |-> 0, m_capacity |-> 0]

Res(c, M, exc, ret) == [c |-> c, M |-> M, exc |-> exc, ret |-> ret]

Data(c) == c.m_data

IsEmpty(c) == c.m_size = 0

Size(c) == c.m_size

Capacity(c) == c.m_capacity

\* checkRange with the comparison off by one (> for >=).
checkRange_offByOne(c, index, allowEnd) ==
    ~(index > (c.m_size + (IF allowEnd THEN 1 ELSE 0)) % Mod)

\* TRUE when checkRange returns, FALSE when it throws std::out_of_range.
checkRange(c, index, allowEnd) ==
    ~(index >= (c.m_size + (IF allowEnd THEN 1 ELSE 0)) % Mod)

replaceStorage(M, c, newData, newSize, newCapacity) ==
    LET M1 == destroy_n(M, c.m_data, 0, c.m_size)
        M2 == deallocate(M1, c.m_data)
    IN Res([c EXCEPT !.m_data = newData, !.m_size = newSize, !.m_capacity = newCapacity],
           M2, "none", 0)

\* tidy that releases the block but keeps the stale pointer in m_data.
tidy_keepsPointer(M, c) == replaceStorage(M, c, c.m_data, 0, 0)

tidy(M, c) == replaceStorage(M, c, nullptr, 0, 0)

\* reallocate that releases the old storage before it asks for the new block.
reallocate_releasesFirst(M, c, newCapacity, allocOk) ==
    IF ~CanAllocate(M, newCapacity, allocOk) THEN Res(tidy(M, c).c, tidy(M, c).M, "bad_alloc", 0)
    ELSE LET newData == allocate(M, newCapacity)
             M1 == Allocated(M, newCapacity)
             newSize == Min(c.m_size, newCapacity)
             M2 == uninitialized_move_n(M1, c.m_data, 0, newSize, newData)
         IN replaceStorage(M2, c, newData, newSize, newCapacity)

reallocate(M, c, newCapacity, allocOk) ==
    IF ~CanAllocate(M, newCapacity, allocOk) THEN Res(c, M, "bad_alloc", 0)
    ELSE LET newData == allocate(M, newCapacity)
             M1 == Allocated(M, newCapacity)
             newSize == Min(c.m_size, newCapacity)
             M2 == uninitialized_move_n(M1, c.m_data, 0, newSize, newData)
         IN replaceStorage(M2, c, newData, newSize, newCapacity)

\* ensureCapacity that returns early one element too soon (< for <=, reversed).
ensureCapacity_lateGrow(M, c, minCapacity, allocOk) ==
    IF minCapacity <= c.m_capacity + 1 THEN Res(c, M, "none", 0)
    ELSE reallocate(M, c, minCapacity, allocOk)

ensureCapacity(M, c, minCapacity, allocOk) ==
    IF minCapacity <= c.m_capacity THEN Res(c, M, "none", 0)
    ELSE LET grown == IF c.m_capacity > MaxWord - c.m_capacity \div 2
                      THEN MaxWord
                      ELSE (c.m_capacity + c.m_capacity \div 2) % Mod
             newCapacity == IF grown < minCapacity THEN minCapacity ELSE grown
         IN reallocate(M, c, newCapacity, allocOk)

assign(M, c, src, count, allocOk) ==
    IF count <= c.m_capacity
    THEN LET M1 == destroy_n(M, c.m_data, 0, c.m_size)
             M2 == IF count > 0 THEN uninitialized_copy_n(M1, src, count, c.m_data, 0) ELSE M1
         IN Res([c EXCEPT !.m_size = count], M2, "none", 0)
    ELSE IF ~CanAllocate(M, count, allocOk) THEN Res(c, M, "bad_alloc", 0)
    ELSE LET newData == allocate(M, count)
             M1 == Allocated(M, count)
             M2 == IF count > 0 THEN uninitialized_copy_n(M1, src, count, newData, 0) ELSE M1
         IN replaceStorage(M2, c, newData, count, count)

\* reallocate for an element type that is copied, not moved (line 549), when
\* the copy constructor throws after good < newSize elements.
reallocate_copyThrows(M, c, newCapacity, allocOk, good) ==
    IF ~CanAllocate(M, newCapacity, allocOk) THEN Res(c, M, "bad_alloc", 0)
    ELSE LET newData == allocate(M, newCapacity)
             M1 == Allocated(M, newCapacity)
             newSize == Min(c.m_size, newCapacity)
             M2 == uninitialized_copy_n_throws(M1, SrcRange(M, c.m_data, newSize), good,
                                               newData, 0)
         IN Res(c, M2, "copy_threw", 0)

\* assign when the element's copy constructor throws after good < count
\* elements: the exception leaves assign from line 474 or line 485.
assign_copyThrows(M, c, src, count, allocOk, good) ==
    IF count <= c.m_capacity
    THEN LET M1 == destroy_n(M, c.m_data, 0, c.m_size)
         IN Res(c, uninitialized_copy_n_throws(M1, src, good, c.m_data, 0), "copy_threw", 0)
    ELSE IF ~CanAllocate(M, count, allocOk) THEN Res(c, M, "bad_alloc", 0)
    ELSE LET newData == allocate(M, count)
             M1 == Allocated(M, count)
         IN Res(c, uninitialized_copy_n_throws(M1, src, good, newData, 0), "copy_threw", 0)

RECURSIVE shiftRightLoop(_, _, _, _, _)
shiftRightLoop(M, c, index, count, i) ==
    IF M.fault \/ i = 0 THEN M
    ELSE LET src == (index + (i - 1)) % Mod
             dest == (src + count) % Mod
             M1 == MoveConstruct(M, c.m_data, dest, src)
         IN shiftRightLoop(destroy_at(M1, c.m_data, src), c, index, count, i - 1)

\* shiftRight that leaves the element at index where it is.
shiftRight_skipsFirst(M, c, index, count) ==
    shiftRightLoop(M, c, (index + 1) % Mod, count, (c.m_size - index - 1) % Mod)

shiftRight(M, c, index, count) ==
    shiftRightLoop(M, c, index, count, (c.m_size - index) % Mod)

RECURSIVE shiftLeftLoop(_, _, _, _, _, _)
shiftLeftLoop(M, c, index, count, i, moveCount) ==
    IF M.fault \/ i >= moveCount THEN M
    ELSE LET src == (index + count + i) % Mod
             dest == (index + i) % Mod
             M1 == MoveConstruct(M, c.m_data, dest, src)
         IN shiftLeftLoop(destroy_at(M1, c.m_data, src), c, index, count, i + 1, moveCount)

shiftLeft(M, c, index, count) ==
    shiftLeftLoop(M, c, index, count, 0, (c.m_size - index - count) % Mod)

\* ------------------------------------------------------ public operations
CountConstruct(M, count, value, allocOk) ==
    IF count > 0
    THEN IF ~CanAllocate(M, count, allocOk) THEN Res(NoObject, M, "bad_alloc", 0)
         ELSE LET data == allocate(M, count)
                  M1 == Allocated(M, count)
                  M2 == uninitialized_fill_n(M1, data, 0, count, value)
              IN Res(Object(data, count, count), M2, "none", 0)
    ELSE Res(Object(nullptr, 0, 0), M, "none", 0)

\* A constructor that delegates to DynamicArray() and then calls assign: when
\* assign throws, the destructor runs on the default-constructed object.
AssignConstruct(M, src, count, allocOk) ==
    LET r == assign(M, Object(nullptr, 0, 0), src, count, allocOk)
    IN IF r.exc = "none" THEN r ELSE Res(NoObject, tidy(r.M, r.c).M, r.exc, 0)

CopyConstruct(M, other, allocOk) ==
    AssignConstruct(M, SrcRange(M, other.m_data, other.m_size), other.m_size, allocOk)

MoveConstruct2(other) ==
    [c |-> Object(other.m_data, other.m_size, other.m_capacity),
     o |-> Object(nullptr, 0, 0)]

Destroy(M, c) == Res(NoObject, tidy(M, c).M, "none", 0)

\* Copy assignment that copies the three fields instead of the elements.
CopyAssign_shallow(M, c, other, same, allocOk) ==
    Res([c EXCEPT !.m_data = other.m_data, !.m_size = other.m_size,
                  !.m_capacity = other.m_capacity], M, "none", 0)

CopyAssign(M, c, other, same, allocOk) ==
    IF ~same THEN assign(M, c, SrcRange(M, other.m_data, other.m_size), other.m_size, allocOk)
    ELSE Res(c, M, "none", 0)

\* Move assignment that takes the source's block without releasing its own.
MoveAssign_noRelease(M, c, other, same) ==
    IF ~same
    THEN [c |-> Object(other.m_data, other.m_size, other.m_capacity),
          o |-> Object(nullptr, 0, 0), M |-> destroy_n(M, c.m_data, 0, c.m_size)]
    ELSE [c |-> c, o |-> other, M |-> M]

MoveAssign(M, c, other, same) ==
    IF ~same
    THEN LET M1 == destroy_n(M, c.m_data, 0, c.m_size)
             M2 == deallocate(M1, c.m_data)
         IN [c |-> Object(other.m_data, other.m_size, other.m_capacity),
             o |-> Object(nullptr, 0, 0), M |-> M2]
    ELSE [c |-> c, o |-> other, M |-> M]

IndexOp(M, c, index) ==
    IF ~checkRange(c, index, FALSE) THEN Res(c, M, "out_of_range", 0)
    ELSE Res(c, IF IsLive(M, c.m_data, index) THEN M ELSE Fault(M), "none",
             Load(M, c.m_data, index))

\* c[index] = value: operator[] followed by the assignment through the reference.
IndexStore(M, c, index, value) ==
    IF ~checkRange(c, index, FALSE) THEN Res(c, M, "out_of_range", 0)
    ELSE IF ~IsLive(M, c.m_data, index) THEN Res(c, Fault(M), "none", 0)
    ELSE Res(c, [M EXCEPT !.heap[c.m_data][index + 1] = value], "none", 0)

\* Reserve that grows through ensureCapacity (the 1.5x rule) instead of
\* asking for exactly newCapacity.
Reserve_grows(M, c, newCapacity, allocOk) == ensureCapacity(M, c, newCapacity, allocOk)

\* Reserve without the newCapacity > m_capacity test.
Reserve_unguarded(M, c, newCapacity, allocOk) == reallocate(M, c, newCapacity, allocOk)

Reserve(M, c, newCapacity, allocOk) ==
    IF newCapacity > c.m_capacity THEN reallocate(M, c, newCapacity, allocOk)
    ELSE Res(c, M, "none", 0)

\* Shrink that keeps the block of an empty container.
Shrink_keepsEmptyBlock(M, c, allocOk) ==
    IF c.m_size = c.m_capacity \/ c.m_size = 0 THEN Res(c, M, "none", 0)
    ELSE reallocate(M, c, c.m_size, allocOk)

Shrink(M, c, allocOk) ==
    IF c.m_size = c.m_capacity THEN Res(c, M, "none", 0)
    ELSE IF c.m_size = 0 THEN tidy(M, c)
    ELSE reallocate(M, c, c.m_size, allocOk)

Emplace(M, c, value, allocOk) ==
    LET r == ensureCapacity(M, c, (c.m_size + 1) % Mod, allocOk)
    IN IF r.exc # "none" THEN r
       ELSE Res([r.c EXCEPT !.m_size = (@ + 1) % Mod],
                construct_at(r.M, r.c.m_data, r.c.m_size, value), "none", 0)

Add(M, c, value, allocOk) == Emplace(M, c, value, allocOk)

AddRange(M, c, ilist, allocOk) ==
    LET count == Len(ilist)
    IN IF count = 0 THEN Res(c, M, "none", 0)
       ELSE LET r == ensureCapacity(M, c, (c.m_size + count) % Mod, allocOk)
            IN IF r.exc # "none" THEN r
               ELSE Res([r.c EXCEPT !.m_size = (@ + count) % Mod],
                        uninitialized_copy_n(r.M, ilist, count, r.c.m_data, r.c.m_size),
                        "none", 0)

EmplaceAt(M, c, index, value, allocOk) ==
    IF ~checkRange(c, index, TRUE) THEN Res(c, M, "out_of_range", 0)
    ELSE LET r == ensureCapacity(M, c, (c.m_size + 1) % Mod, allocOk)
         IN IF r.exc # "none" THEN r
            ELSE LET M1 == shiftRight(r.M, r.c, index, 1)
                     M2 == construct_at(M1, r.c.m_data, index, value)
                 IN Res([r.c EXCEPT !.m_size = (@ + 1) % Mod], M2, "none", 0)

Insert(M, c, index, value, allocOk) == EmplaceAt(M, c, index, value, allocOk)

\* An argument that refers to an element of a container (the const T& that
\* operator[] returned) is slot i of the block p the container had when the
\* reference was taken.  Reading through it yields what the slot holds at the
\* time of the read; once the slot was destroyed or its block released the
\* read is undefined behaviour and yields whatever the memory holds (stale).
Deref(M, p, i, stale) == IF IsLive(M, p, i) THEN M.heap[p][i + 1] ELSE stale

DerefMem(M, p, i) == IF IsLive(M, p, i) THEN M ELSE Fault(M)

\* Emplace(args) with args bound to slot k of block p.
EmplaceRef(M, c, p, k, stale, allocOk) ==
    LET r == ensureCapacity(M, c, (c.m_size + 1) % Mod, allocOk)
    IN IF r.exc # "none" THEN r
       ELSE Res([r.c EXCEPT !.m_size = (@ + 1) % Mod],
                construct_at(DerefMem(r.M, p, k), r.c.m_data, r.c.m_size,
                             Deref(r.M, p, k, stale)), "none", 0)

\* Add(const T& value) with value bound to slot k of block p.
AddRef(M, c, p, k, stale, allocOk) == EmplaceRef(M, c, p, k, stale, allocOk)

\* EmplaceAt(index, args) with args bound to slot k of block p.
EmplaceAtRef(M, c, index, p, k, stale, allocOk) ==
    IF ~checkRange(c, index, TRUE) THEN Res(c, M, "out_of_range", 0)
    ELSE LET r == ensureCapacity(M, c, (c.m_size + 1) % Mod, allocOk)
         IN IF r.exc # "none" THEN r
            ELSE LET M1 == shiftRight(r.M, r.c, index, 1)
                     M2 == construct_at(DerefMem(M1, p, k), r.c.m_data, index,
                                        Deref(M1, p, k, stale))
                 IN Res([r.c EXCEPT !.m_size = (@ + 1) % Mod], M2, "none", 0)

\* Insert(index, const T& value) with value bound to slot k of block p.
InsertRef(M, c, index, p, k, stale, allocOk) ==
    EmplaceAtRef(M, c, index, p, k, stale, allocOk)

InsertRange(M, c, index, ilist, allocOk) ==
    IF ~checkRange(c, index, TRUE) THEN Res(c, M, "out_of_range", 0)
    ELSE LET count == Len(ilist)
         IN IF count = 0 THEN Res(c, M, "none", 0)
            ELSE LET r == ensureCapacity(M, c, (c.m_size + count) % Mod, allocOk)
                 IN IF r.exc # "none" THEN r
                    ELSE LET M1 == shiftRight(r.M, r.c, index, count)
                             M2 == uninitialized_copy_n(M1, ilist, count, r.c.m_data, index)
                         IN Res([r.c EXCEPT !.m_size = (@ + count) % Mod], M2, "none", 0)

RECURSIVE FindLoop(_, _, _, _)
FindLoop(M, c, value, i) ==
    IF ~(i < c.m_size) THEN INDEX_NONE
    ELSE IF Load(M, c.m_data, i) = value THEN i
    ELSE FindLoop(M, c, value, i + 1)

Find(M, c, value) == FindLoop(M, c, value, 0)

Contains(M, c, value) == Find(M, c, value) # INDEX_NONE

\* for (std::size_t i = m_size; i-- > 0;)
RECURSIVE FindLastLoop(_, _, _, _)
FindLastLoop(M, c, value, i) ==
    IF ~(i > 0) THEN INDEX_NONE
    ELSE IF Load(M, c.m_data, i - 1) = value THEN i - 1
    ELSE FindLastLoop(M, c, value, i - 1)

\* FindLast that scans from the front.
FindLast_forward(M, c, value) == FindLoop(M, c, value, 0)

FindLast(M, c, value) == FindLastLoop(M, c, value, c.m_size)

RemoveAt(M, c, index) ==
    IF ~checkRange(c, index, FALSE) THEN Res(c, M, "out_of_range", 0)
    ELSE LET M1 == destroy_at(M, c.m_data, index)
             M2 == shiftLeft(M1, c, index, 1)
         IN Res([c EXCEPT !.m_size = (@ - 1) % Mod], M2, "none", 0)

Remove(M, c, value) ==
    LET index == Find(M, c, value)
    IN IF index # INDEX_NONE
       THEN LET r == RemoveAt(M, c, index) IN Res(r.c, r.M, r.exc, 1)
       ELSE Res(c, M, "none", 0)

RemoveRange(M, c, index, count) ==
    IF ~checkRange(c, index, FALSE) THEN Res(c, M, "out_of_range", 0)
    ELSE IF count = 0 THEN Res(c, M, "none", 0)
    ELSE LET cnt == IF (index + count) % Mod > c.m_size
                    THEN (c.m_size - index) % Mod
                    ELSE count
             M1 == destroy_n(M, c.m_data, index, cnt)
             M2 == shiftLeft(M1, c, index, cnt)
         IN Res([c EXCEPT !.m_size = (@ - cnt) % Mod], M2, "none", 0)

\* The for loop of RemoveAll; pred is the set of values the predicate accepts.
RECURSIVE RemoveAllLoop(_, _, _, _, _)
RemoveAllLoop(M, c, pred, read, write) ==
    IF ~(read < c.m_size) THEN [M |-> M, write |-> write]
    ELSE IF Load(M, c.m_data, read) \notin pred
    THEN LET M1 == IF write # read
                   THEN destroy_at(MoveConstruct(M, c.m_data, write, read), c.m_data, read)
                   ELSE M
         IN RemoveAllLoop(M1, c, pred, read + 1, write + 1)
    ELSE RemoveAllLoop(destroy_at(M, c.m_data, read), c, pred, read + 1, write)

\* RemoveAll that forgets to store the new size.
RemoveAll_keepsSize(M, c, pred) ==
    LET l == RemoveAllLoop(M, c, pred, 0, 0)
    IN Res(c, l.M, "none", (c.m_size - l.write) % Mod)

RemoveAll(M, c, pred) ==
    LET l == RemoveAllLoop(M, c, pred, 0, 0)
        removed == (c.m_size - l.write) % Mod
    IN Res([c EXCEPT !.m_size = l.write], l.M, "none", removed)

\* Clear that also gives the storage back.
Clear_releases(M, c) == replaceStorage(M, c, nullptr, 0, 0)

Clear(M, c) == Res([c EXCEPT !.m_size = 0], destroy_n(M, c.m_data, 0, c.m_size), "none", 0)

Resize(M, c, newSize, value, allocOk) ==
    IF newSize < c.m_size
    THEN Res([c EXCEPT !.m_size = newSize],
             destroy_n(M, c.m_data, newSize, c.m_size - newSize), "none", 0)
    ELSE IF newSize > c.m_size
    THEN LET r == ensureCapacity(M, c, newSize, allocOk)
         IN IF r.exc # "none" THEN r
            ELSE Res([r.c EXCEPT !.m_size = newSize],
                     uninitialized_fill_n(r.M, r.c.m_data, r.c.m_size,
                                          newSize - r.c.m_size, value), "none", 0)
    ELSE Res([c EXCEPT !.m_size = newSize], M, "none", 0)

Swap(c, other) ==
    [c |-> [c EXCEPT !.m_data = other.m_data, !.m_size = other.m_size,
                     !.m_capacity = other.m_capacity],
     o |-> [other EXCEPT !.m_data = c.m_data, !.m_size = c.m_size,
                         !.m_capacity = c.m_capacity]]

\* lhs.m_data[i] <=> rhs.m_data[i] and lhs.m_size <=> rhs.m_size on integers.
ThreeWay(x, y) == IF x < y THEN "less" ELSE IF x = y THEN "equal" ELSE "greater"

RECURSIVE operator_eq_loop(_, _, _, _)
operator_eq_loop(M, lhs, rhs, i) ==
    IF ~(i < lhs.m_size) THEN TRUE
    ELSE IF Load(M, lhs.m_data, i) # Load(M, rhs.m_data, i) THEN FALSE
    ELSE operator_eq_loop(M, lhs, rhs, i + 1)

operator_eq(M, lhs, rhs) ==
    IF lhs.m_size # rhs.m_size THEN FALSE ELSE operator_eq_loop(M, lhs, rhs, 0)

RECURSIVE operator_cmp_loop(_, _, _, _, _)
operator_cmp_loop(M, lhs, rhs, minSize, i) ==
    IF ~(i < minSize) THEN ThreeWay(lhs.m_size, rhs.m_size)
    ELSE LET cmp == ThreeWay(Load(M, lhs.m_data, i), Load(M, rhs.m_data, i))
         IN IF cmp # "equal" THEN cmp
            ELSE operator_cmp_loop(M, lhs, rhs, minSize, i + 1)

\* operator<=> that stops at the common prefix and never compares the sizes.
operator_cmp_ignoresSize(M, lhs, rhs) ==
    LET minSize == Min(lhs.m_size, rhs.m_size)
    IN operator_cmp_loop(M, [lhs EXCEPT !.m_size = minSize],
                         [rhs EXCEPT !.m_size = minSize], minSize, 0)

operator_cmp(M, lhs, rhs) ==
    operator_cmp_loop(M, lhs, rhs, Min(lhs.m_size, rhs.m_size), 0)

\* ------------------------------------------------------------------ state
M0 == Mem(heap, FALSE)

\* Block addresses mean nothing beyond their identity, so every state names
\* the blocks in one fixed order: the blocks the objects point to, in the
\* order of the objects, then the other allocated blocks, then the free ones.
BlockOrder(a, h) ==
    LET ids == [b \in Blocks |-> b]
        IsFirst(b) == b = a["a"].m_data
        IsSecond(b) == ~IsFirst(b) /\ "b" \in DOMAIN a /\ b = a["b"].m_data
        IsOther(b) == ~IsFirst(b) /\ ~IsSecond(b) /\ h[b] # <<>>
        IsFree(b) == ~IsFirst(b) /\ ~IsSecond(b) /\ h[b] = <<>>
    IN SelectSeq(ids, IsFirst) \o SelectSeq(ids, IsSecond)
       \o SelectSeq(ids, IsOther) \o SelectSeq(ids, IsFree)

Renamed(order, p) == IF p = nullptr THEN nullptr ELSE CHOOSE k \in Blocks : order[k] = p

\* The call returns (or throws) leaving the objects a and the heap M; a call
\* that ran into undefined behaviour may instead abort the process before
\* returning.
Finish(a, M) ==
    /\ UNCHANGED limit
    /\ \/ \E order \in {BlockOrder(a, M.heap)} :
             /\ arr' = [n \in DOMAIN a |-> [a[n] EXCEPT !.m_data = Renamed(order, @)]]
             /\ heap' = [k \in Blocks |-> M.heap[order[k]]]
             /\ status' = IF M.fault THEN "ub" ELSE "ok"
       \/ /\ M.fault
          /\ UNCHANGED <<arr, heap>>
          /\ status' = "ub"

Commit(this, r) == \E res \in {r} : Finish([arr EXCEPT ![this] = res.c], res.M)

Commit2(this, that, r) ==
    \E res \in {r} : Finish([arr EXCEPT ![this] = res.c, ![that] = res.o], res.M)

\* The objects of the program.
Objs == DOMAIN arr

Alive(this) == status = "ok" /\ arr[this].alive

Unborn(this) == status = "ok" /\ ~arr[this].alive

Init ==
    /\ arr = [n \in {"a"} |-> Object(nullptr, 0, 0)]
    /\ heap = [b \in Blocks |-> <<>>]
    /\ status = "ok"
    /\ limit = MaxAlloc

InitTwo ==
    /\ arr = [n \in Names |-> Object(nullptr, 0, 0)]
    /\ heap = [b \in Blocks |-> <<>>]
    /\ status = "ok"
    /\ limit = MaxAllocTwo

InitCap ==
    /\ arr = [n \in {"a"} |-> Object(nullptr, 0, 0)]
    /\ heap = [b \in Blocks |-> <<>>]
    /\ status = "ok"
    /\ limit = MaxAllocCap

\* ---------------------------------------------------------------- actions
CallDefaultCtor ==
    \E this \in Objs :
        /\ Unborn(this)
        /\ Commit(this, Res(Object(nullptr, 0, 0), M0, "none", 0))

CallCountCtor ==
    \E this \in Objs, count \in Words, value \in Values, allocOk \in BOOLEAN :
        /\ Unborn(this)
        /\ Commit(this, CountConstruct(M0, count, value, allocOk))

CallInitListCtor ==
    \E this \in Objs, init \in Lists, allocOk \in BOOLEAN :
        /\ Unborn(this)
        /\ Commit(this, AssignConstruct(M0, init, Len(init), allocOk))

CallCopyCtor ==
    \E this \in Objs, that \in Objs, allocOk \in BOOLEAN :
        /\ Unborn(this)
        /\ Alive(that)
        /\ Commit(this, CopyConstruct(M0, arr[that], allocOk))

CallMoveCtor ==
    \E this \in Objs, that \in Objs :
        /\ Unborn(this)
        /\ Alive(that)
        /\ Commit2(this, that, MoveConstruct2(arr[that]) @@ [M |-> M0])

CallDtor ==
    \E this \in Objs :
        /\ Alive(this)
        /\ Commit(this, Destroy(M0, arr[this]))

CallCopyAssign ==
    \E this \in Objs, that \in Objs, allocOk \in BOOLEAN :
        /\ Alive(this)
        /\ Alive(that)
        /\ Commit(this, CopyAssign(M0, arr[this], arr[that], this = that, allocOk))

CallMoveAssign ==
    \E this \in Objs, that \in Objs :
        /\ Alive(this)
        /\ Alive(that)
        /\ Commit2(this, that, MoveAssign(M0, arr[this], arr[that], this = that))

CallInitListAssign ==
    \E this \in Objs, ilist \in Lists, allocOk \in BOOLEAN :
        /\ Alive(this)
        /\ Commit(this, assign(M0, arr[this], ilist, Len(ilist), allocOk))

CallIndex ==
    \E this \in Objs, index \in Words :
        /\ Alive(this)
        /\ Commit(this, IndexOp(M0, arr[this], index))

CallIndexStore ==
    \E this \in Objs, index \in Words, value \in Values :
        /\ Alive(this)
        /\ Commit(this, IndexStore(M0, arr[this], index, value))

CallReserve ==
    \E this \in Objs, newCapacity \in Words, allocOk \in BOOLEAN :
        /\ Alive(this)
        /\ Commit(this, Reserve(M0, arr[this], newCapacity, allocOk))

CallShrink ==
    \E this \in Objs, allocOk \in BOOLEAN :
        /\ Alive(this)
        /\ Commit(this, Shrink(M0, arr[this], allocOk))

CallAdd ==
    \E this \in Objs, value \in Values, allocOk \in BOOLEAN :
        /\ Alive(this)
        /\ Commit(this, Add(M0, arr[this], value, allocOk))

CallEmplace ==
    \E this \in Objs, value \in Values, allocOk \in BOOLEAN :
        /\ Alive(this)
        /\ Commit(this, Emplace(M0, arr[this], value, allocOk))

\* An initializer_list and the array's elements are in memory together, so
\* m_size + ilist.size() is representable in a word.
CallAddRange ==
    \E this \in Objs, ilist \in Lists, allocOk \in BOOLEAN :
        /\ Alive(this)
        /\ arr[this].m_size + Len(ilist) <= MaxWord
        /\ Commit(this, AddRange(M0, arr[this], ilist, allocOk))

CallEmplaceAt ==
    \E this \in Objs, index \in Words, value \in Values, allocOk \in BOOLEAN :
        /\ Alive(this)
        /\ Commit(this, EmplaceAt(M0, arr[this], index, value, allocOk))

CallInsert ==
    \E this \in Objs, index \in Words, value \in Values, allocOk \in BOOLEAN :
        /\ Alive(this)
        /\ Commit(this, Insert(M0, arr[this], index, value, allocOk))

CallInsertRange ==
    \E this \in Objs, index \in Words, ilist \in Lists, allocOk \in BOOLEAN :
        /\ Alive(this)
        /\ arr[this].m_size + Len(ilist) <= MaxWord
        /\ Commit(this, InsertRange(M0, arr[this], index, ilist, allocOk))

CallRemove ==
    \E this \in Objs, value \in Values :
        /\ Alive(this)
        /\ Commit(this, Remove(M0, arr[this], value))

CallRemoveAt ==
    \E this \in Objs, index \in Words :
        /\ Alive(this)
        /\ Commit(this, RemoveAt(M0, arr[this], index))

CallRemoveRange ==
    \E this \in Objs, index \in Words, count \in Words :
        /\ Alive(this)
        /\ Commit(this, RemoveRange(M0, arr[this], index, count))

CallRemoveAll ==
    \E this \in Objs, pred \in Preds :
        /\ Alive(this)
        /\ Commit(this, RemoveAll(M0, arr[this], pred))

CallClear ==
    \E this \in Objs :
        /\ Alive(this)
        /\ Commit(this, Clear(M0, arr[this]))

\* Resize(newSize) is Resize(newSize, T{}); T{} is the value 0.
CallResize ==
    \E this \in Objs, newSize \in Words, value \in Values, allocOk \in BOOLEAN :
        /\ Alive(this)
        /\ Commit(this, Resize(M0, arr[this], newSize, value, allocOk))

CallSwap ==
    \E this \in Objs, that \in Objs :
        /\ Alive(this)
        /\ Alive(that)
        /\ Commit2(this, that, (IF this = that THEN [c |-> arr[this], o |-> arr[that]]
                    ELSE Swap(arr[this], arr[that])) @@ [M |-> M0])

\* The lookups are const member functions: they return a value and write
\* nothing.
CallFind ==
    \E this \in Objs, value \in Values :
        /\ Alive(this)
        /\ Commit(this, Res(arr[this], M0, "none", Find(M0, arr[this], value)))

CallFindLast ==
    \E this \in Objs, value \in Values :
        /\ Alive(this)
        /\ Commit(this, Res(arr[this], M0, "none", FindLast(M0, arr[this], value)))

CallContains ==
    \E this \in Objs, value \in Values :
        /\ Alive(this)
        /\ Commit(this, Res(arr[this], M0, "none", Contains(M0, arr[this], value)))

\* lhs == rhs and lhs <=> rhs take both operands by const reference.
CallEquals ==
    \E this \in Objs, that \in Objs :
        /\ Alive(this)
        /\ Alive(that)
        /\ Commit(this, Res(arr[this], M0, "none", operator_eq(M0, arr[this], arr[that])))

CallCompare ==
    \E this \in Objs, that \in Objs :
        /\ Alive(this)
        /\ Alive(that)
        /\ Commit(this, Res(arr[this], M0, "none", operator_cmp(M0, arr[this], arr[that])))

\* operator=(initializer_list) on elements whose copy constructor throws
\* at the copy number good + 1.
CallInitListAssignThrows ==
    \E this \in Objs, ilist \in Lists, good \in 0..MaxList, allocOk \in BOOLEAN :
        /\ Alive(this)
        /\ good < Len(ilist)
        /\ Commit(this, assign_copyThrows(M0, arr[this], ilist, Len(ilist), allocOk, good))

\* Reserve on copy-only elements whose copy constructor throws at the copy
\* number good + 1.
CallReserveThrows ==
    \E this \in Objs, newCapacity \in Words, good \in Words, allocOk \in BOOLEAN :
        /\ Alive(this)
        /\ newCapacity > arr[this].m_capacity
        /\ good < Min(arr[this].m_size, newCapacity)
        /\ Commit(this, reallocate_copyThrows(M0, arr[this], newCapacity, allocOk, good))

\* c.Add(c[k]), c.Emplace(c[k]), c.Insert(index, c[k]) and
\* c.EmplaceAt(index, c[k]): operator[] checked k and returned a reference
\* into the object's own block, which the call receives as its argument.
CallAddElement ==
    \E this \in Objs, k \in Words, stale \in Values, allocOk \in BOOLEAN :
        /\ Alive(this)
        /\ checkRange(arr[this], k, FALSE)
        /\ Commit(this, AddRef(M0, arr[this], arr[this].m_data, k, stale, allocOk))

CallEmplaceElement ==
    \E this \in Objs, k \in Words, stale \in Values, allocOk \in BOOLEAN :
        /\ Alive(this)
        /\ checkRange(arr[this], k, FALSE)
        /\ Commit(this, EmplaceRef(M0, arr[this], arr[this].m_data, k, stale, allocOk))

CallInsertElement ==
    \E this \in Objs, index \in Words, k \in Words, stale \in Values, allocOk \in BOOLEAN :
        /\ Alive(this)
        /\ checkRange(arr[this], k, FALSE)
        /\ Commit(this, InsertRef(M0, arr[this], index, arr[this].m_data, k, stale, allocOk))

CallEmplaceAtElement ==
    \E this \in Objs, index \in Words, k \in Words, stale \in Values, allocOk \in BOOLEAN :
        /\ Alive(this)
        /\ checkRange(arr[this], k, FALSE)
        /\ Commit(this, EmplaceAtRef(M0, arr[this], index, arr[this].m_data, k, stale, allocOk))

Next ==
    \/ CallDefaultCtor
    \/ CallCountCtor
    \/ CallInitListCtor
    \/ CallDtor
    \/ CallCopyAssign
    \/ CallMoveAssign
    \/ CallInitListAssign
    \/ CallIndex
    \/ CallIndexStore
    \/ CallReserve
    \/ CallShrink
    \/ CallAdd
    \/ CallEmplace
    \/ CallAddRange
    \/ CallEmplaceAt
    \/ CallInsert
    \/ CallInsertRange
    \/ CallRemove
    \/ CallRemoveAt
    \/ CallRemoveRange
    \/ CallRemoveAll
    \/ CallClear
    \/ CallResize
    \/ CallSwap
    \/ CallFind
    \/ CallFindLast
    \/ CallContains

Spec == Init /\ [][Next]_vars

NextTwo ==
    \/ CallDefaultCtor
    \/ CallCountCtor
    \/ CallCopyCtor
    \/ CallMoveCtor
    \/ CallDtor
    \/ CallCopyAssign
    \/ CallMoveAssign
    \/ CallSwap
    \/ CallIndexStore
    \/ CallReserve
    \/ CallShrink
    \/ CallAdd
    \/ CallInsert
    \/ CallRemove
    \/ CallRemoveAt
    \/ CallRemoveAll
    \/ CallClear
    \/ CallResize
    \/ CallEquals
    \/ CallCompare

SpecTwo == InitTwo /\ [][NextTwo]_vars

NextCap ==
    \/ CallCountCtor
    \/ CallDtor
    \/ CallReserve
    \/ CallShrink
    \/ CallAdd
    \/ CallRemoveAt
    \/ CallClear
    \/ CallResize

SpecCap == InitCap /\ [][NextCap]_vars

NextThrow ==
    \/ CallInitListCtor
    \/ CallDtor
    \/ CallInitListAssign
    \/ CallInitListAssignThrows
    \/ CallReserve
    \/ CallReserveThrows
    \/ CallShrink
    \/ CallAdd
    \/ CallRemoveAt
    \/ CallClear

SpecThrow == Init /\ [][NextThrow]_vars

NextAlias ==
    \/ CallInitListCtor
    \/ CallDtor
    \/ CallReserve
    \/ CallShrink
    \/ CallAdd
    \/ CallInsert
    \/ CallRemoveAt
    \/ CallClear
    \/ CallAddElement
    \/ CallEmplaceElement
    \/ CallInsertElement
    \/ CallEmplaceAtElement

SpecAlias == Init /\ [][NextAlias]_vars

\* ------------------------------------------------------------ observation
\* The logical element sequence of object c over heap h.
Elems(c, h) ==
    [i \in 1..c.m_size |->
        IF c.m_data # nullptr /\ i <= Len(h[c.m_data]) THEN h[c.m_data][i] ELSE Dead]

\* TRUE when the program is running (no call has hit undefined behaviour).
Running == status = "ok"

Objects == {n \in Objs : arr[n].alive}

Old(n) == Elems(arr[n], heap)

New(r) == Elems(r.c, r.M.heap)

\* The outcome of a call that completed normally, without undefined behaviour.
Returned(r) == r.exc = "none" /\ ~r.M.fault

\* The call threw exc and left the object and the heap as they were.
Threw(r, n, exc) == r.exc = exc /\ ~r.M.fault /\ r.c = arr[n] /\ r.M.heap = heap

\* ----------------------------------------------------------------- claims
\* C1: in every reachable state, every live container has
\* 0 <= Size() <= Capacity().
C1_SizeWithinCapacity ==
    \A n \in Objects : 0 <= Size(arr[n]) /\ Size(arr[n]) <= Capacity(arr[n])

\* C2: after every public operation no lifetime rule was broken (no slot
\* constructed while live, destroyed while dead or touched outside the block)
\* and, in the storage block of every live container, exactly the slots
\* [0, size) are constructed and the slots [size, capacity) are not.
C2_LiveSlotsAreThePrefix ==
    /\ status = "ok"
    /\ \A n \in Objects :
          LET c == arr[n]
              blk == IF c.m_data = nullptr THEN <<>> ELSE heap[c.m_data]
          IN /\ Len(blk) = c.m_capacity
             /\ \A i \in 1..Len(blk) : (blk[i] # Dead) <=> (i <= c.m_size)

\* C3: operator[], RemoveAt and RemoveRange with index >= Size(), and
\* EmplaceAt, Insert and InsertRange with index > Size(), throw out_of_range
\* and leave size, capacity, storage and elements as they were; with an index
\* in the permitted range none of them throws out_of_range.
C3_OutOfRange ==
    Running =>
    \A n \in Objects, index \in Words :
        LET c == arr[n]
            strict == {IndexOp(M0, c, index), RemoveAt(M0, c, index)}
                      \cup {IndexStore(M0, c, index, v) : v \in Values}
                      \cup {RemoveRange(M0, c, index, count) : count \in Words}
            atEnd == UNION {{EmplaceAt(M0, c, index, v, ok), Insert(M0, c, index, v, ok)} :
                            v \in Values, ok \in BOOLEAN}
                     \cup {InsertRange(M0, c, index, l, ok) : l \in Lists, ok \in BOOLEAN}
        IN /\ \A r \in strict :
                 IF index >= Size(c) THEN Threw(r, n, "out_of_range")
                 ELSE r.exc # "out_of_range"
           /\ \A r \in atEnd :
                 IF index > Size(c) THEN Threw(r, n, "out_of_range")
                 ELSE r.exc # "out_of_range"

\* C3 witness: a non-empty container with spare capacity, indexed at Size():
\* the slot exists in the block but the call throws.
C3_Witness ==
    /\ Running
    /\ \E n \in Objects :
          /\ Size(arr[n]) > 0
          /\ Capacity(arr[n]) > Size(arr[n])
          /\ IndexOp(M0, arr[n], Size(arr[n])).exc = "out_of_range"
          /\ RemoveAt(M0, arr[n], Size(arr[n])).exc = "out_of_range"
          /\ EmplaceAt(M0, arr[n], Size(arr[n]) + 1, 0, TRUE).exc = "out_of_range"

\* C4: Add(x) and Emplace(x), when they complete, leave Size() = old size + 1,
\* x at index old size and the old elements unchanged in order, whether or
\* not the storage had to grow; the only way they fail is bad_alloc, which
\* leaves the container as it was.
C4_AddAppends ==
    Running =>
    \A n \in Objects, x \in Values, ok \in BOOLEAN :
        \A r \in {Add(M0, arr[n], x, ok), Emplace(M0, arr[n], x, ok)} :
            IF r.exc = "none"
            THEN /\ ~r.M.fault
                 /\ Size(r.c) = Size(arr[n]) + 1
                 /\ New(r) = Append(Old(n), x)
            ELSE Threw(r, n, "bad_alloc")

\* C4 witness: a full, non-empty container on which Add completes by growing.
C4_Witness ==
    /\ Running
    /\ \E n \in Objects :
          /\ Size(arr[n]) >= 2
          /\ Size(arr[n]) = Capacity(arr[n])
          /\ Returned(Add(M0, arr[n], 1, TRUE))
          /\ Capacity(Add(M0, arr[n], 1, TRUE).c) > Capacity(arr[n])
          /\ Returned(Emplace(M0, arr[n], 1, TRUE))

\* C5: for index in [0, Size()], Insert and EmplaceAt, when they complete,
\* yield old[0..index) ++ <<x>> ++ old[index..size) and Size() = old size + 1;
\* InsertRange yields old[0..index) ++ list ++ old[index..size).
C5_InsertShifts ==
    Running =>
    \A n \in Objects, index \in Words :
        index <= Size(arr[n]) =>
        LET old == Old(n)
            size == Size(arr[n])
        IN /\ \A x \in Values, ok \in BOOLEAN :
                 \A r \in {Insert(M0, arr[n], index, x, ok), EmplaceAt(M0, arr[n], index, x, ok)} :
                     r.exc = "none" =>
                         /\ ~r.M.fault
                         /\ Size(r.c) = size + 1
                         /\ New(r) = SubSeq(old, 1, index) \o <<x>> \o SubSeq(old, index + 1, size)
           /\ \A l \in Lists, ok \in BOOLEAN :
                 size + Len(l) <= MaxWord =>
                 LET r == InsertRange(M0, arr[n], index, l, ok)
                 IN r.exc = "none" =>
                        /\ ~r.M.fault
                        /\ Size(r.c) = size + Len(l)
                        /\ New(r) = SubSeq(old, 1, index) \o l \o SubSeq(old, index + 1, size)

\* C5 witness: an insertion at the front that shifts two elements in place,
\* and a range insertion in the middle that shifts one element by two.
C5_Witness ==
    /\ Running
    /\ \E n \in Objects :
          /\ Size(arr[n]) = 2
          /\ Capacity(arr[n]) > 2
          /\ Old(n)[1] # Old(n)[2]
          /\ Returned(Insert(M0, arr[n], 0, 1, TRUE))
    /\ \E n \in Objects :
          /\ Size(arr[n]) >= 1
          /\ Returned(InsertRange(M0, arr[n], Size(arr[n]) - 1, <<0, 1>>, TRUE))

\* C6: for index < Size() and every count of the index type, RemoveRange
\* raises no error, removes exactly min(count, Size() - index) elements
\* starting at index, and keeps the others in order.
C6_RemoveRangeClamps ==
    Running =>
    \A n \in Objects, index \in Words, count \in Words :
        index < Size(arr[n]) =>
        LET old == Old(n)
            size == Size(arr[n])
            gone == Min(count, size - index)
            r == RemoveRange(M0, arr[n], index, count)
        IN /\ Returned(r)
           /\ Size(r.c) = size - gone
           /\ New(r) = SubSeq(old, 1, index) \o SubSeq(old, index + gone + 1, size)

\* C7: RemoveAll(pred) keeps exactly the elements pred rejects, in their
\* original order, returns the number of elements pred accepts and sets
\* Size() to the old size minus that number.
C7_RemoveAllFilters ==
    Running =>
    \A n \in Objects, pred \in Preds :
        LET old == Old(n)
            Kept(v) == v \notin pred
            hits == Cardinality({i \in 1..Len(old) : old[i] \in pred})
            r == RemoveAll(M0, arr[n], pred)
        IN /\ Returned(r)
           /\ New(r) = SelectSeq(old, Kept)
           /\ r.ret = hits
           /\ Size(r.c) = Size(arr[n]) - hits

\* C7 witness: a container where a kept element follows a removed one, so the
\* kept element is moved down.
C7_Witness ==
    /\ Running
    /\ \E n \in Objects :
          /\ Size(arr[n]) = 3
          /\ Old(n) = <<1, 0, 1>>
          /\ RemoveAll(M0, arr[n], {0}).ret = 1

\* What a caller can observe of object n: whether it exists, Size(),
\* Capacity() and the elements.
View(a, h, n) ==
    [alive |-> a[n].alive, size |-> Size(a[n]), capacity |-> Capacity(a[n]),
     elems |-> Elems(a[n], h)]

\* A copy of source m, when it completes, holds m's sequence in a block that
\* is not m's and leaves m's elements as they were.
IsDeepCopy(r, m) ==
    r.exc = "none" =>
        /\ ~r.M.fault
        /\ New(r) = Old(m)
        /\ Elems(arr[m], r.M.heap) = Old(m)
        /\ Data(r.c) # nullptr => Data(r.c) # Data(arr[m])

CopiesAreDeep ==
    Running =>
    /\ \A n \in Objects, m \in Objects, ok \in BOOLEAN :
          n # m => IsDeepCopy(CopyAssign(M0, arr[n], arr[m], FALSE, ok), m)
    /\ \A n \in Objs \ Objects, m \in Objects, ok \in BOOLEAN :
          IsDeepCopy(CopyConstruct(M0, arr[m], ok), m)
    /\ \A n \in Objects, m \in Objects :
          n # m /\ Data(arr[n]) # nullptr => Data(arr[n]) # Data(arr[m])

\* A call changes what can be observed of at most one container, unless it
\* hands the state of one container over to the other (move, Swap).
OneContainerPerCall ==
    \A n \in Objs, m \in Objs :
        (/\ n # m
         /\ View(arr', heap', n) # View(arr, heap, n)
         /\ View(arr', heap', m) # View(arr, heap, m))
        => \/ View(arr', heap', n) = View(arr, heap, m)
           \/ View(arr', heap', m) = View(arr, heap, n)

\* C8: a copy (construction or assignment) holds the source's sequence in a
\* storage block of its own and leaves the source as it was; no two live
\* containers ever share a block; and no call on one container changes the
\* size, capacity or elements of the other (only a move or a Swap, which
\* hand a container's state over, touch both).
C8_CopyIndependent == [](CopiesAreDeep) /\ [][OneContainerPerCall]_vars

\* C8 witness: two containers with the same non-empty sequence in different
\* blocks, one of them exactly as large as the sequence (the copy) and the
\* other with spare capacity, and a copy assignment that reuses its block.
C8_Witness ==
    /\ Running
    /\ \E n \in Objects, m \in Objects :
          /\ n # m
          /\ Size(arr[m]) >= 1
          /\ Old(n) = Old(m)
          /\ Data(arr[n]) # Data(arr[m])
          /\ Capacity(arr[n]) = Size(arr[n])
          /\ Capacity(arr[m]) > Size(arr[m])
          /\ Returned(CopyAssign(M0, arr[m], arr[n], FALSE, TRUE))

\* C9: a move (construction or assignment) between distinct containers leaves
\* the source with Size() = 0, Capacity() = 0 and Data() = null, gives the
\* target the source's block, capacity and sequence, and releases the block
\* the target owned exactly once, touching no other block; a self-move and a
\* self-copy assignment change nothing.
C9_MoveTransfers ==
    Running =>
    /\ \A n \in Objects, m \in Objects :
          n # m =>
          LET r == MoveAssign(M0, arr[n], arr[m], FALSE)
              mine == Data(arr[n])
          IN /\ ~r.M.fault
             /\ Size(r.o) = 0 /\ Capacity(r.o) = 0 /\ Data(r.o) = nullptr /\ r.o.alive
             /\ r.c = arr[m]
             /\ Elems(r.c, r.M.heap) = Old(m)
             /\ mine # nullptr => heap[mine] # <<>> /\ r.M.heap[mine] = <<>>
             /\ \A b \in Blocks \ {mine} : r.M.heap[b] = heap[b]
    /\ \A n \in Objs \ Objects, m \in Objects :
          LET r == MoveConstruct2(arr[m])
          IN /\ Size(r.o) = 0 /\ Capacity(r.o) = 0 /\ Data(r.o) = nullptr /\ r.o.alive
             /\ r.c = arr[m]
    /\ \A n \in Objects :
          /\ MoveAssign(M0, arr[n], arr[n], TRUE) = [c |-> arr[n], o |-> arr[n], M |-> M0]
          /\ \A ok \in BOOLEAN :
                CopyAssign(M0, arr[n], arr[n], TRUE, ok) = Res(arr[n], M0, "none", 0)

\* C9 witness: a move assignment whose target owns a block with live elements
\* and whose source is a non-empty container with spare capacity.
C9_Witness ==
    /\ Running
    /\ \E n \in Objects, m \in Objects :
          /\ n # m
          /\ Size(arr[n]) >= 1
          /\ Size(arr[m]) >= 1
          /\ Capacity(arr[m]) > Size(arr[m])
          /\ MoveAssign(M0, arr[n], arr[m], FALSE).M.heap[Data(arr[n])] = <<>>

\* C10: Reserve(n), when it completes, leaves Capacity() >= n and >= the old
\* capacity and never changes Size() or the elements; with n <= the old
\* capacity it changes nothing at all; its only failure is bad_alloc, which
\* needs n > capacity and leaves the container as it was.
C10_Reserve ==
    Running =>
    \A n \in Objects, k \in Words, ok \in BOOLEAN :
        LET r == Reserve(M0, arr[n], k, ok)
        IN /\ k <= Capacity(arr[n]) => r = Res(arr[n], M0, "none", 0)
           /\ IF r.exc = "none"
              THEN /\ ~r.M.fault
                   /\ Capacity(r.c) >= k
                   /\ Capacity(r.c) >= Capacity(arr[n])
                   /\ Size(r.c) = Size(arr[n])
                   /\ New(r) = Old(n)
              ELSE k > Capacity(arr[n]) /\ Threw(r, n, "bad_alloc")

\* C10 witness: Reserve grows a non-empty container, carrying its elements to
\* a new block.
C10_Witness ==
    /\ Running
    /\ \E n \in Objects :
          /\ Size(arr[n]) >= 2
          /\ Returned(Reserve(M0, arr[n], Capacity(arr[n]) + 1, TRUE))
          /\ Data(Reserve(M0, arr[n], Capacity(arr[n]) + 1, TRUE).c) # Data(arr[n])

\* The capacity the growth rule asks for: max(n, capacity + capacity/2),
\* clamped to the largest word.
GrowthRule(capacity, n) ==
    LET grown == capacity + capacity \div 2
        wanted == IF grown < n THEN n ELSE grown
    IN IF wanted > MaxWord THEN MaxWord ELSE wanted

\* C11 (as claimed): Reserve(n) with n > Capacity(), when it completes, leaves
\* Capacity() = max(n, capacity + capacity/2), clamped to the largest word.
C11_ReserveGrowthRule ==
    Running =>
    \A n \in Objects, k \in Words, ok \in BOOLEAN :
        LET r == Reserve(M0, arr[n], k, ok)
        IN k > Capacity(arr[n]) /\ r.exc = "none" =>
               Capacity(r.c) = GrowthRule(Capacity(arr[n]), k)

\* C11 (amended): Reserve(n) with n > Capacity() asks the allocator for exactly
\* n slots: it completes whenever the allocator grants n slots, and then
\* Capacity() = n.  The max(n, capacity + capacity/2) rule is the capacity
\* chosen when Add or Resize outgrow the storage.
C11_ReserveExact ==
    Running =>
    \A n \in Objects, k \in Words, ok \in BOOLEAN :
        LET c == arr[n]
            r == Reserve(M0, c, k, ok)
            add == Add(M0, c, 0, ok)
            resized == Resize(M0, c, k, 0, ok)
        IN /\ k > Capacity(c) =>
                 /\ CanAllocate(M0, k, ok) => r.exc = "none"
                 /\ r.exc = "none" => Capacity(r.c) = k
           /\ Size(c) = Capacity(c) /\ add.exc = "none" =>
                 Capacity(add.c) = GrowthRule(Capacity(c), Size(c) + 1)
           /\ k > Capacity(c) /\ resized.exc = "none" =>
                 Capacity(resized.c) = GrowthRule(Capacity(c), k)

\* C11 witness: a container of capacity 4 on which Reserve(5) completes with
\* capacity 5, while an Add that outgrows it completes with capacity 6.
C11_Witness ==
    /\ Running
    /\ \E n \in Objects :
          /\ Size(arr[n]) = 4
          /\ Capacity(arr[n]) = 4
          /\ Returned(Reserve(M0, arr[n], 5, TRUE))
          /\ Capacity(Reserve(M0, arr[n], 5, TRUE).c) = 5
          /\ Capacity(Add(M0, arr[n], 0, TRUE).c) = 6

\* C12: Shrink(), when it completes, leaves Capacity() = Size() and the
\* element sequence unchanged; with Size() = 0 the storage block is released
\* and Data() is null; with Capacity() = Size() already it changes nothing and
\* allocates nothing; its only failure is bad_alloc, which leaves the
\* container as it was.
C12_ShrinkExact ==
    Running =>
    \A n \in Objects, ok \in BOOLEAN :
        LET c == arr[n]
            r == Shrink(M0, c, ok)
        IN /\ Capacity(c) = Size(c) => r = Res(c, M0, "none", 0)
           /\ IF r.exc = "none"
              THEN /\ ~r.M.fault
                   /\ Capacity(r.c) = Size(r.c)
                   /\ Size(r.c) = Size(c)
                   /\ New(r) = Old(n)
                   /\ Size(c) = 0 =>
                         /\ Data(r.c) = nullptr
                         /\ \A b \in Blocks : r.M.heap[b] = <<>>
              ELSE Size(c) > 0 /\ Threw(r, n, "bad_alloc")

\* C12 witness: Shrink carries the elements of a container with spare
\* capacity to a block of exactly Size() slots.
C12_Witness ==
    /\ Running
    /\ \E n \in Objects :
          /\ Size(arr[n]) >= 2
          /\ Capacity(arr[n]) > Size(arr[n])
          /\ Returned(Shrink(M0, arr[n], TRUE))
          /\ Data(Shrink(M0, arr[n], TRUE).c) # Data(arr[n])
          /\ Len(Shrink(M0, arr[n], TRUE).M.heap[Data(Shrink(M0, arr[n], TRUE).c)]) = Size(arr[n])

\* C13 (as claimed): in every reachable state, a container with Size() = 0
\* has Data() = null.
C13_EmptyDataIsNull ==
    Running => \A n \in Objects : Size(arr[n]) = 0 => Data(arr[n]) = nullptr

\* C13 (amended): in every reachable state Data() is null exactly when
\* Capacity() = 0, and otherwise points to the container's block of
\* Capacity() slots; Clear(), removing the last element and Reserve(n) on an
\* empty container leave Size() = 0 with Data() not null.
C13_DataNullIffNoStorage ==
    Running =>
    \A n \in Objects :
        LET c == arr[n]
        IN /\ Data(c) = nullptr <=> Capacity(c) = 0
           /\ Data(c) # nullptr => Len(heap[Data(c)]) = Capacity(c)
           /\ Data(Clear(M0, c).c) = Data(c)
           /\ Size(c) = 1 => /\ Size(RemoveAt(M0, c, 0).c) = 0
                             /\ Data(RemoveAt(M0, c, 0).c) = Data(c)
                             /\ Data(c) # nullptr
           /\ Size(c) = 0 =>
                 \A k \in Words :
                     LET r == Reserve(M0, c, k, TRUE)
                     IN k > Capacity(c) /\ r.exc = "none" =>
                            Size(r.c) = 0 /\ Data(r.c) # nullptr

\* C13 witness: an empty container that still holds its storage block, as
\* Clear() leaves it.
C13_Witness ==
    /\ Running
    /\ \E n \in Objects :
          /\ Size(arr[n]) = 0
          /\ Capacity(arr[n]) >= 2
          /\ Data(arr[n]) # nullptr
          /\ Clear(M0, arr[n]).c = arr[n]

\* C14: in every reachable state every allocated storage block is owned by
\* exactly one live container (no leak, no block shared or released twice),
\* every live container with storage points to an allocated block, and no
\* call has touched released memory; also after an allocation or an element
\* copy failed inside reallocate or assign.
C14_BlocksOwnedOnce ==
    /\ \A b \in Blocks :
          heap[b] # <<>> => Cardinality({n \in Objects : Data(arr[n]) = b}) = 1
    /\ \A n \in Objects : Data(arr[n]) # nullptr => heap[Data(arr[n])] # <<>>

\* C15: when the allocator refuses the block that Reserve, Shrink, Add,
\* Emplace, EmplaceAt, Insert, AddRange, InsertRange, Resize or an assignment
\* (assign, which copy assignment runs) needs, the call throws bad_alloc; and
\* whenever one of them throws bad_alloc, the storage block, size, capacity
\* and elements are exactly what they were before the call.
C15_AllocationFailureIsClean ==
    Running =>
    \A n \in Objects, k \in Words, ok \in BOOLEAN :
        LET c == arr[n]
            size == Size(c)
            cap == Capacity(c)
            lists == {l \in Lists : l # <<>> /\ size + Len(l) <= MaxWord}
            Calls(need, rs) == [need |-> need, rs |-> rs]
            calls ==
                {Calls(k > cap, {Reserve(M0, c, k, ok)}),
                 Calls(size # cap /\ size > 0, {Shrink(M0, c, ok)}),
                 Calls(size + 1 > cap,
                       UNION {{Add(M0, c, v, ok), Emplace(M0, c, v, ok)} : v \in Values}),
                 Calls(k <= size /\ size + 1 > cap,
                       UNION {{EmplaceAt(M0, c, k, v, ok), Insert(M0, c, k, v, ok)} :
                              v \in Values}),
                 Calls(k > cap, {Resize(M0, c, k, v, ok) : v \in Values})}
                \cup {Calls(size + Len(l) > cap, {AddRange(M0, c, l, ok)}) : l \in lists}
                \cup {Calls(k <= size /\ size + Len(l) > cap, {InsertRange(M0, c, k, l, ok)}) :
                      l \in lists}
                \cup {Calls(Len(l) > cap, {assign(M0, c, l, Len(l), ok)}) : l \in lists}
        IN \A call \in calls : \A r \in call.rs :
               /\ call.need /\ ~ok => r.exc = "bad_alloc"
               /\ r.exc = "bad_alloc" => call.need /\ Threw(r, n, "bad_alloc")

\* C15 witness: a full container with two elements on which Add, Insert,
\* Reserve and Resize all fail for want of memory.
C15_Witness ==
    /\ Running
    /\ \E n \in Objects :
          /\ Size(arr[n]) >= 2
          /\ Size(arr[n]) = Capacity(arr[n])
          /\ Add(M0, arr[n], 1, FALSE).exc = "bad_alloc"
          /\ Insert(M0, arr[n], 0, 1, FALSE).exc = "bad_alloc"
          /\ Reserve(M0, arr[n], Capacity(arr[n]) + 1, FALSE).exc = "bad_alloc"
          /\ Resize(M0, arr[n], Capacity(arr[n]) + 1, 0, FALSE).exc = "bad_alloc"

\* The call kept the storage: same block, same capacity, and no block of the
\* heap was allocated or released.
KeptStorage(r, n) ==
    /\ r.exc \in {"none", "out_of_range"}
    /\ Data(r.c) = Data(arr[n])
    /\ Capacity(r.c) = Capacity(arr[n])
    /\ \A b \in Blocks : Len(r.M.heap[b]) = Len(heap[b])

\* C16: Clear() sets Size() to 0 and keeps Capacity() and the storage block;
\* RemoveAt, RemoveRange, Remove, RemoveAll and a Resize to a smaller size keep
\* Capacity() and the block too; and no call other than Shrink (a move and a
\* Swap aside) ever lowers Capacity().
C16_RemovalKeepsCapacity ==
    Running =>
    \A n \in Objects :
        LET c == arr[n]
            removals ==
                {Clear(M0, c)}
                \cup {RemoveAt(M0, c, i) : i \in Words}
                \cup {RemoveRange(M0, c, i, k) : i \in Words, k \in Words}
                \cup {Remove(M0, c, v) : v \in Values}
                \cup {RemoveAll(M0, c, pred) : pred \in Preds}
                \cup {Resize(M0, c, k, v, ok) :
                      k \in 0..Size(c), v \in Values, ok \in BOOLEAN}
            others ==
                UNION {{Reserve(M0, c, k, ok), IndexOp(M0, c, k)} :
                       k \in Words, ok \in BOOLEAN}
                \cup UNION {{Add(M0, c, v, ok), Emplace(M0, c, v, ok)} :
                            v \in Values, ok \in BOOLEAN}
                \cup UNION {{EmplaceAt(M0, c, k, v, ok), Insert(M0, c, k, v, ok),
                             Resize(M0, c, k, v, ok), IndexStore(M0, c, k, v)} :
                            k \in Words, v \in Values, ok \in BOOLEAN}
                \cup UNION {{AddRange(M0, c, l, ok), assign(M0, c, l, Len(l), ok)} :
                            l \in {x \in Lists : Size(c) + Len(x) <= MaxWord},
                            ok \in BOOLEAN}
        IN /\ Size(Clear(M0, c).c) = 0
           /\ Returned(Clear(M0, c))
           /\ \A r \in removals : KeptStorage(r, n)
           /\ \A r \in others : Capacity(r.c) >= Capacity(c)

\* C16 witness: a container with elements and a block on which Clear and
\* RemoveAt act, and which a Resize makes smaller.
C16_Witness ==
    /\ Running
    /\ \E n \in Objects :
          /\ Size(arr[n]) >= 2
          /\ Capacity(Clear(M0, arr[n]).c) >= 2
          /\ Returned(RemoveAt(M0, arr[n], 0))
          /\ Size(Resize(M0, arr[n], 1, 0, TRUE).c) = 1

\* C17: Find(v) returns the smallest index whose element equals v and
\* FindLast(v) the largest; both return INDEX_NONE, the largest index value,
\* exactly when no element equals v; Contains(v) is true exactly when some
\* element equals v, that is when Find(v) # INDEX_NONE.
C17_FindFirstAndLast ==
    Running =>
    \A n \in Objects, v \in Values :
        LET c == arr[n]
            old == Old(n)
            hits == {i \in 0..(Size(c) - 1) : old[i + 1] = v}
            first == Find(M0, c, v)
            last == FindLast(M0, c, v)
        IN /\ INDEX_NONE = MaxWord
           /\ Contains(M0, c, v) <=> hits # {}
           /\ Contains(M0, c, v) <=> first # INDEX_NONE
           /\ IF hits = {}
              THEN first = INDEX_NONE /\ last = INDEX_NONE
              ELSE /\ first \in hits /\ \A i \in hits : first <= i
                   /\ last \in hits /\ \A i \in hits : i <= last

\* C17 witness: a container where the value sought occurs twice, with another
\* element between the occurrences, so Find and FindLast differ.
C17_Witness ==
    /\ Running
    /\ \E n \in Objects :
          /\ Old(n) = <<1, 0, 1>>
          /\ Find(M0, arr[n], 1) = 0
          /\ FindLast(M0, arr[n], 1) = 2
          /\ Find(M0, arr[n], 0) = FindLast(M0, arr[n], 0)

\* C18: a <=> b is the comparison of the elements at the first index below
\* min(size) where a and b differ and, when there is none, the comparison of
\* the sizes (the shorter orders first); a == b holds exactly when a <=> b is
\* equal; and a <=> b is less exactly when b <=> a is greater.
C18_LexicographicOrder ==
    Running =>
    \A n \in Objects, m \in Objects :
        LET a == Old(n)
            b == Old(m)
            differ == {i \in 1..Min(Len(a), Len(b)) : a[i] # b[i]}
            at == CHOOSE i \in differ : \A j \in differ : i <= j
            ab == operator_cmp(M0, arr[n], arr[m])
            ba == operator_cmp(M0, arr[m], arr[n])
        IN /\ differ # {} => ab = (IF a[at] < b[at] THEN "less" ELSE "greater")
           /\ differ = {} => /\ Len(a) < Len(b) => ab = "less"
                             /\ Len(a) = Len(b) => ab = "equal"
                             /\ Len(a) > Len(b) => ab = "greater"
           /\ operator_eq(M0, arr[n], arr[m]) <=> ab = "equal"
           /\ operator_eq(M0, arr[n], arr[m]) <=> a = b
           /\ ab = "less" <=> ba = "greater"

\* C18 witness: two containers of different sizes that agree on the shorter
\* one's elements, and so are ordered by size alone.
C18_Witness ==
    /\ Running
    /\ \E n \in Objects, m \in Objects :
          /\ Size(arr[n]) >= 1
          /\ Size(arr[n]) < Size(arr[m])
          /\ Old(n) = SubSeq(Old(m), 1, Size(arr[n]))
          /\ operator_cmp(M0, arr[n], arr[m]) = "less"
          /\ operator_cmp(M0, arr[m], arr[n]) = "greater"
          /\ ~operator_eq(M0, arr[n], arr[m])

\* C19: when Add or Emplace is called with an argument that refers to an
\* element of the same container (c.Add(c[k]), k < Size()) while
\* Size() = Capacity(), the call that completes appends the value c[k] had
\* before the call and never reads the argument from a block that was
\* already destroyed and released.
C19_AddOwnElement ==
    Running =>
        \A n \in Objects : \A k \in Words, stale \in Values, allocOk \in BOOLEAN :
            (k < Size(arr[n]) /\ Size(arr[n]) = Capacity(arr[n])) =>
                \A r \in {AddRef(M0, arr[n], arr[n].m_data, k, stale, allocOk),
                          EmplaceRef(M0, arr[n], arr[n].m_data, k, stale, allocOk)} :
                    r.exc = "none" =>
                        /\ ~r.M.fault
                        /\ New(r) = Append(Old(n), Old(n)[k + 1])

\* C20: when Insert or EmplaceAt is called with an argument that refers to
\* an element of the same container (c.Insert(i, c[k]), i <= k < Size()) and
\* no reallocation is needed, the element constructed at index i is the
\* value c[k] had before the call, the other elements keep their order, and
\* the argument is not read from a slot shiftRight already destroyed or
\* overwrote with another element.
C20_InsertOwnElement ==
    Running =>
        \A n \in Objects : \A i \in Words, k \in Words, stale \in Values, allocOk \in BOOLEAN :
            (i <= k /\ k < Size(arr[n]) /\ Size(arr[n]) < Capacity(arr[n])) =>
                \A r \in {InsertRef(M0, arr[n], i, arr[n].m_data, k, stale, allocOk),
                          EmplaceAtRef(M0, arr[n], i, arr[n].m_data, k, stale, allocOk)} :
                    /\ Returned(r)
                    /\ New(r) = SubSeq(Old(n), 1, i) \o <<Old(n)[k + 1]>>
                                \o SubSeq(Old(n), i + 1, Size(arr[n]))

====
